---------------------------- MODULE Spec2Model ----------------------------
(***************************************************************************)
(* gorm0log: a gorm logger.Interface backed by zerolog.                    *)
(*                                                                         *)
(* The model follows logger.go, config.go and helper.go.  The zerolog      *)
(* calls the package makes are modelled by what they do to an event:       *)
(*   - Logger.Trace()/Debug()/... return a nil *Event when the level is    *)
(*     below the logger's threshold or the logger has no writer;           *)
(*   - Event.Discard() returns nil;                                        *)
(*   - Event.Func(f) runs f only when the event is non-nil and Enabled();  *)
(*   - Event.Enabled() is e != nil && e.level != Disabled;                 *)
(*   - Event.Msg() writes the event (unless nil or Disabled) and then      *)
(*     hands it back to zerolog's process-wide event pool ("once this      *)
(*     method is called, the *Event should be disposed").                  *)
(* zerolog's global level is taken at its default (TraceLevel).            *)
(***************************************************************************)
EXTENDS Integers, Sequences, FiniteSets, TLC

VARIABLES
    adapters,   \* the heap of *Logger values: adapters[i] = [Logger, Config]
    orig,       \* the adapter the host constructed, as constructed
    ret,        \* the last LogMode call: receiver, result, heap size before
    lvIn,       \* the last verbosity handed to the level-mapping functions
    lvOut,      \* what DefaultLogLevelMap / WithTimeTracking returned for it
    pc,         \* position of the calling goroutine: "idle", "check", "done"
    call,       \* the current (or last) call: op, receiver, err, dur, f
    out,        \* the messages the call has written so far
    fCalls,     \* how often the call has invoked the (sql, rows) supplier
    custCalls,  \* how often the call has invoked Config.Customize
    held        \* the error event Trace still refers to after Msg

vars == <<adapters, orig, ret, lvIn, lvOut, pc, call, out, fCalls, custCalls, held>>

modeVars == <<adapters, orig, ret, lvIn, lvOut>>
callVars == <<pc, call, out, fCalls, custCalls, held>>

----------------------------------------------------------------------------
(* Bounds of the model.                                                    *)

MaxDur == 3         \* elapsed times are 1..MaxDur
MaxRows == 1        \* row counts are -1..MaxRows
MaxAdapters == 3    \* LogMode stops allocating at this heap size
MaxLv == 6          \* verbosity values are -MaxLv..MaxLv

----------------------------------------------------------------------------
(* zerolog.Level and gorm's logger.LogLevel.                               *)

TraceLevel == -1
DebugLevel == 0
InfoLevel == 1
WarnLevel == 2
ErrorLevel == 3
Disabled == 7

logger_Silent == 1
logger_Error == 2
logger_Warn == 3
logger_Info == 4

ErrMsg == "a sql error occurred"
SlowMsg == "sql query time exceeds threshold"
DumpMsg == "dump sql"

----------------------------------------------------------------------------
(* Errors.  errors.Is walks the Unwrap chain.                              *)

Unwrap(err) ==
    CASE err = "wrapNotFound" -> "ErrRecordNotFound"
      [] err = "wrapDuplicatedKey" -> "ErrDuplicatedKey"
      [] OTHER -> "nil"

ErrorsIs(err, target) == err = target \/ Unwrap(err) = target

----------------------------------------------------------------------------
(* zerolog events.                                                         *)

Fld(k, kind, n, s) == [key |-> k, kind |-> kind, num |-> n, str |-> s]

NilEvent == [nil |-> TRUE, level |-> Disabled, fields |-> <<>>,
             fCalls |-> 0, cust |-> 0]

\* Logger.should: no writer, or a level below the threshold, gives no event.
Should(l, lvl) == l.w /\ lvl >= l.level

newEvent(l, lvl) ==
    IF Should(l, lvl)
    THEN [nil |-> FALSE, level |-> lvl, fields |-> <<>>, fCalls |-> 0, cust |-> 0]
    ELSE NilEvent

Enabled(e) == ~e.nil /\ e.level # Disabled

Discard(e) == NilEvent

\* A Func that runs its argument whatever the event.
FuncRunsMut(e) == TRUE
\* Event.Func runs its argument only on an enabled event.
FuncRuns(e) == ~e.nil /\ Enabled(e)

AddField(e, fld) == IF e.nil THEN e ELSE [e EXCEPT !.fields = Append(@, fld)]

\* Event.Err(err): the error under zerolog's ErrorFieldName.
Err(e, err) == IF err = "nil" THEN e ELSE AddField(e, Fld("error", "err", 0, err))

\* Event.Msg: what reaches the writer.
Msg(e, msg) ==
    IF e.nil \/ e.level = Disabled
    THEN <<>>
    ELSE << [msg |-> msg, level |-> e.level, fields |-> e.fields] >>

----------------------------------------------------------------------------
(* config.go: level selectors.                                             *)

Ignore(l) == Discard(newEvent(l, TraceLevel))
UseError(l) == newEvent(l, ErrorLevel)
UseWarn(l) == newEvent(l, WarnLevel)
UseInfo(l) == newEvent(l, InfoLevel)
UseDebug(l) == newEvent(l, DebugLevel)
UseTrace(l) == newEvent(l, TraceLevel)

\* Calling a func(zerolog.Logger) *zerolog.Event value.
ApplyLevel(fn, l) ==
    CASE fn = "Ignore" -> Ignore(l)
      [] fn = "UseError" -> UseError(l)
      [] fn = "UseWarn" -> UseWarn(l)
      [] fn = "UseInfo" -> UseInfo(l)
      [] fn = "UseDebug" -> UseDebug(l)
      [] fn = "UseTrace" -> UseTrace(l)

----------------------------------------------------------------------------
(* helper.go: error classification.                                        *)

CommonError(err) ==
    ErrorsIs(err, "ErrRecordNotFound") \/ ErrorsIs(err, "ErrDuplicatedKey")

\* LogErrorAt(level, CommonError)(err, l)
LogErrorAt(fn, err, l) ==
    IF CommonError(err) THEN ApplyLevel(fn, l) ELSE UseError(l)

\* The common errors routed to debug.
IgnoreCommonErrMut(e, l) == LogErrorAt("UseDebug", e, l)
IgnoreCommonErr(e, l) == LogErrorAt("UseTrace", e, l)

DebugCommonErr(e, l) == LogErrorAt("UseDebug", e, l)

\* Calling a func(error, zerolog.Logger) *zerolog.Event value: one of the two
\* ready-made selectors, or the host's LogErrorAt(Ignore, CommonError).
ApplyErrorLevel(fn, err, l) ==
    CASE fn = "IgnoreCommonErr" -> IgnoreCommonErr(err, l)
      [] fn = "DebugCommonErr" -> DebugCommonErr(err, l)
      [] fn = "LogErrorAt(Ignore)" -> LogErrorAt("Ignore", err, l)

----------------------------------------------------------------------------
(* config.go: Config accessors and formatters.                             *)

key(val, defaults) == IF val # "" THEN val ELSE defaults

sqlKey(c) == key(c.SQL, "sql")
durKey(c) == key(c.Duration, "duration")
rowKey(c) == key(c.AffectedRows, "affected_rows")

errLevel(c, err, l) ==
    IF c.ErrorLevel = "nil"
    THEN Err(UseError(l), err)
    ELSE ApplyErrorLevel(c.ErrorLevel, err, l)

level(val, defaults) == IF val = "nil" THEN defaults ELSE val

slowLevel(c, l) == ApplyLevel(level(c.SlowLevel, "UseWarn"), l)
dumpLevel(c, l) == ApplyLevel(level(c.DumpLevel, "UseDebug"), l)

\* The closure custom(ctx) returns, applied to ev.  The host's callback is
\* taken to attach one field.
custom(c, ev) ==
    IF ~c.Customize
    THEN ev
    ELSE [AddField(ev, Fld("ctx", "str", 0, "ctx")) EXCEPT !.cust = @ + 1]

\* The (sql, rows) supplier, invoked: the event records the invocation.
CallF(ev) == [ev EXCEPT !.fCalls = @ + 1]

AddRows(c, ev, rows) ==
    IF rows # -1 THEN AddField(ev, Fld(rowKey(c), "int", rows, "")) ELSE ev

\* The closure logErr(err, f) returns, applied to ev.
logErr(c, err, f, ev) ==
    AddRows(c, AddField(Err(CallF(ev), err), Fld(sqlKey(c), "str", 0, f.sql)), f.rows)

\* The closure logSlow(dur, f) returns, applied to ev.
logSlow(c, dur, f, ev) ==
    AddRows(c, AddField(AddField(CallF(ev), Fld(durKey(c), "dur", dur, "")),
                        Fld(sqlKey(c), "str", 0, f.sql)), f.rows)

\* The closure logDump(dur, f) returns, applied to ev.
logDump(c, dur, f, ev) ==
    LET e1 == IF c.DumpWithDuration
              THEN AddField(ev, Fld(durKey(c), "dur", dur, ""))
              ELSE ev
    IN AddRows(c, AddField(CallF(e1), Fld(sqlKey(c), "str", 0, f.sql)), f.rows)

----------------------------------------------------------------------------
(* logger.go: level mapping.                                               *)

\* A first case that tests i == logger.Silent.
DefaultLogLevelMapMut(i) ==
    CASE i = logger_Silent -> Disabled
      [] i = logger_Error -> ErrorLevel
      [] i = logger_Warn -> WarnLevel
      [] OTHER -> DebugLevel
DefaultLogLevelMap(i) ==
    CASE i <= logger_Silent -> Disabled
      [] i = logger_Error -> ErrorLevel
      [] i = logger_Warn -> WarnLevel
      [] OTHER -> DebugLevel

WithTimeTracking(i) ==
    CASE i <= logger_Silent -> Disabled
      [] i = logger_Error -> ErrorLevel
      [] i = logger_Warn -> WarnLevel
      [] OTHER -> TraceLevel

\* The switch in LogMode.
LogModeLevel(lv) ==
    CASE lv <= logger_Silent -> Disabled
      [] lv = logger_Error -> ErrorLevel
      [] lv = logger_Warn -> WarnLevel
      [] OTHER -> DebugLevel

\* &Logger{Logger: l.Logger.Level(lvl), Config: l.Config}
Derived(l, lv) ==
    [Logger |-> [l.Logger EXCEPT !.level = LogModeLevel(lv)], Config |-> l.Config]

\* A LogMode that sets the level on its receiver and returns it.
LogModeHeapMut(heap, recv, lv) ==
    [heap |-> [heap EXCEPT ![recv] = Derived(heap[recv], lv)], res |-> recv]
\* LogMode on the heap: a fresh *Logger is allocated, the receiver is only read.
LogModeHeap(heap, recv, lv) ==
    [heap |-> Append(heap, Derived(heap[recv], lv)), res |-> Len(heap) + 1]

----------------------------------------------------------------------------
(* logger.go: Trace.                                                       *)

\* One ev.Func(l.custom(ctx)).Func(fmt) chain: what the event has become and
\* what the chain invoked.  which names the formatter.
Chain(c, e0, which, err, dur, f) ==
    LET e1 == IF FuncRuns(e0) THEN custom(c, e0) ELSE e0
    IN IF FuncRuns(e1)
       THEN CASE which = "err" -> logErr(c, err, f, e1)
              [] which = "slow" -> logSlow(c, dur, f, e1)
              [] which = "dump" -> logDump(c, dur, f, e1)
       ELSE e1

Emitted(ev, msg) == [out |-> Msg(ev, msg), fCalls |-> ev.fCalls, cust |-> ev.cust]

\* Lines 117-118: the error event, populated and written.
ErrEvent(l, err, f) ==
    Chain(l.Config, errLevel(l.Config, err, l.Logger), "err", err, 0, f)

\* Line 120: if ev.Enabled() { return }, read from the event as it is now.
\* A return on every error, enabled or not.
ErrStopsMut(err, ev) == err # "nil"
ErrStops(err, ev) == err # "nil" /\ ~ev.nil /\ ev.level # Disabled

\* Line 126.  A strict comparison.
IsSlowMut(c, dur) == c.SlowThreshold > 0 /\ dur > c.SlowThreshold
IsSlow(c, dur) == c.SlowThreshold > 0 /\ dur >= c.SlowThreshold

SlowPart(l, dur, f) ==
    Emitted(Chain(l.Config, slowLevel(l.Config, l.Logger), "slow", "nil", dur, f),
            SlowMsg)

DumpPart(l, dur, f) ==
    Emitted(Chain(l.Config, dumpLevel(l.Config, l.Logger), "dump", "nil", dur, f),
            DumpMsg)

\* A slow branch that does not return.
TraceTailMut(l, dur, f) ==
    IF IsSlow(l.Config, dur)
    THEN [out |-> SlowPart(l, dur, f).out \o DumpPart(l, dur, f).out,
          fCalls |-> SlowPart(l, dur, f).fCalls + DumpPart(l, dur, f).fCalls,
          cust |-> SlowPart(l, dur, f).cust + DumpPart(l, dur, f).cust]
    ELSE DumpPart(l, dur, f)
\* Lines 126-138.
TraceTail(l, dur, f) ==
    IF IsSlow(l.Config, dur) THEN SlowPart(l, dur, f) ELSE DumpPart(l, dur, f)

----------------------------------------------------------------------------
(* The adapters a host can construct, and the inputs of a call.            *)

Thresholds == {0, MaxDur - 1}
Durs == 1..MaxDur
RowCounts == -1..MaxRows
Verbosities == -MaxLv..MaxLv

Errs == {"generic", "ErrRecordNotFound", "wrapDuplicatedKey"}

Configs ==
    [SlowThreshold : Thresholds,
     SlowLevel : {"nil", "Ignore"},
     Duration : {"", "elapsed"},
     ErrorLevel : {"nil", "IgnoreCommonErr", "DebugCommonErr", "LogErrorAt(Ignore)"},
     DumpLevel : {"nil", "Ignore", "UseTrace"},
     DumpWithDuration : BOOLEAN,
     SQL : {"", "query"},
     AffectedRows : {""},
     Customize : BOOLEAN]

\* zerolog.New(w).Level(x), and the zero zerolog.Logger (no writer, level 0).
Handles ==
    [w : {TRUE},
     level : {TraceLevel, DebugLevel, InfoLevel, WarnLevel, ErrorLevel, Disabled}]
    \cup {[w |-> FALSE, level |-> DebugLevel]}

Loggers == [Logger : Handles, Config : Configs]

Suppliers == [sql : {"SELECT"}, rows : RowCounts]

\* The level selectors other goroutines log through.
OtherFns == {"Ignore", "UseDebug"}

NoHeld == [nil |-> TRUE, level |-> Disabled, pooled |-> FALSE]
NoCall == [op |-> "none", a |-> 1, err |-> "nil", dur |-> 0,
           f |-> [sql |-> "", rows |-> -1]]
NoRet == [recv |-> 0, res |-> 0, n |-> 0]

Init ==
    /\ \E l \in Loggers : adapters = <<l>> /\ orig = l
    /\ ret = NoRet
    /\ lvIn = logger_Silent
    /\ lvOut = [def |-> DefaultLogLevelMap(logger_Silent),
                tt |-> WithTimeTracking(logger_Silent)]
    /\ pc = "idle"
    /\ call = NoCall
    /\ out = <<>>
    /\ fCalls = 0
    /\ custCalls = 0
    /\ held = NoHeld

----------------------------------------------------------------------------
(* Operations.  A call runs from "idle" to "done"; Return hands control    *)
(* back to the caller, which drops what the call left behind.              *)

LogMode(a, lv) ==
    /\ pc = "idle"
    /\ Len(adapters) < MaxAdapters
    /\ adapters' = LogModeHeap(adapters, a, lv).heap
    /\ ret' = [recv |-> a, res |-> LogModeHeap(adapters, a, lv).res,
               n |-> Len(adapters)]
    /\ call' = [NoCall EXCEPT !.op = "LogMode", !.a = a]
    /\ pc' = "done"
    /\ UNCHANGED <<orig, lvIn, lvOut, out, fCalls, custCalls, held>>

MapLevel(i) ==
    /\ pc = "idle"
    /\ lvIn' = i
    /\ lvOut' = [def |-> DefaultLogLevelMap(i), tt |-> WithTimeTracking(i)]
    /\ call' = [NoCall EXCEPT !.op = "MapLevel"]
    /\ pc' = "done"
    /\ UNCHANGED <<adapters, orig, ret, out, fCalls, custCalls, held>>

\* Info, Warn and Error: l.Logger.X().Func(l.custom(ctx)).Msgf(msg, args...)
Plain(op, a, lvl) ==
    LET l == adapters[a]
        e0 == newEvent(l.Logger, lvl)
        ev == IF FuncRuns(e0) THEN custom(l.Config, e0) ELSE e0
    IN /\ pc = "idle"
       /\ call' = [NoCall EXCEPT !.op = op, !.a = a]
       /\ out' = Msg(ev, "msg")
       /\ fCalls' = ev.fCalls
       /\ custCalls' = ev.cust
       /\ pc' = "done"
       /\ UNCHANGED held
       /\ UNCHANGED modeVars

Info(a) == Plain("Info", a, InfoLevel)
Warn(a) == Plain("Warn", a, WarnLevel)
Error(a) == Plain("Error", a, ErrorLevel)

\* Trace, lines 113-118: dur, and with an error the error event, written.
TraceStart(a, err, dur, f) ==
    LET l == adapters[a]
        ev == IF err # "nil" THEN ErrEvent(l, err, f) ELSE NilEvent
    IN /\ pc = "idle"
       /\ call' = [op |-> "Trace", a |-> a, err |-> err, dur |-> dur, f |-> f]
       /\ out' = Msg(ev, ErrMsg)
       /\ fCalls' = ev.fCalls
       /\ custCalls' = ev.cust
       /\ held' = [nil |-> ev.nil, level |-> ev.level, pooled |-> ~ev.nil]
       /\ pc' = "check"
       /\ UNCHANGED modeVars

\* Between Msg and ev.Enabled() the event lies in zerolog's pool, where any
\* other goroutine's next event is taken from.  A level selector that is
\* Ignore discards it (level = Disabled, never pooled again); any other
\* sets its level, writes it and pools it again.
OtherGoroutine(fn) ==
    /\ pc = "check"
    /\ ~held.nil
    /\ held.pooled
    /\ held' = IF fn = "Ignore"
               THEN [held EXCEPT !.level = Disabled, !.pooled = FALSE]
               ELSE [held EXCEPT
                       !.level = ApplyLevel(fn, [w |-> TRUE, level |-> TraceLevel]).level]
    /\ UNCHANGED <<pc, call, out, fCalls, custCalls>>
    /\ UNCHANGED modeVars

\* Trace, lines 120-139.
TraceFinish ==
    LET l == adapters[call.a]
        tail == TraceTail(l, call.dur, call.f)
    IN /\ pc = "check"
       /\ IF ErrStops(call.err, held)
          THEN UNCHANGED <<out, fCalls, custCalls>>
          ELSE /\ out' = out \o tail.out
               /\ fCalls' = fCalls + tail.fCalls
               /\ custCalls' = custCalls + tail.cust
       /\ held' = NoHeld
       /\ pc' = "done"
       /\ UNCHANGED call
       /\ UNCHANGED modeVars

Return ==
    /\ pc = "done"
    /\ pc' = "idle"
    /\ call' = NoCall
    /\ out' = <<>>
    /\ fCalls' = 0
    /\ custCalls' = 0
    /\ ret' = NoRet
    /\ lvIn' = logger_Silent
    /\ lvOut' = [def |-> DefaultLogLevelMap(logger_Silent),
                 tt |-> WithTimeTracking(logger_Silent)]
    /\ UNCHANGED <<adapters, orig, held>>

Next ==
    \/ \E a \in DOMAIN adapters : Info(a)
    \/ \E a \in DOMAIN adapters : Warn(a)
    \/ \E a \in DOMAIN adapters : Error(a)
    \/ \E a \in DOMAIN adapters, err \in Errs \cup {"nil"}, dur \in Durs,
          f \in Suppliers : TraceStart(a, err, dur, f)
    \/ \E fn \in OtherFns : OtherGoroutine(fn)
    \/ TraceFinish
    \/ \E i \in Verbosities : MapLevel(i)
    \/ Return

Spec == Init /\ [][Next]_vars

NextMode ==
    \/ \E a \in DOMAIN adapters, lv \in Verbosities : LogMode(a, lv)
    \/ Return

SpecMode == Init /\ [][NextMode]_vars

----------------------------------------------------------------------------
(* Properties.                                                             *)

TraceDone == pc = "done" /\ call.op = "Trace"

L == adapters[call.a]
C == adapters[call.a].Config

\* The event the error-severity selector returns for the call's error.
SelectedErr == errLevel(C, call.err, L.Logger)

Count(msg) == Cardinality({i \in DOMAIN out : out[i].msg = msg})

\* What the same call writes when made with a nil error.
NilErrorCall ==
    IF C.SlowThreshold > 0 /\ call.dur >= C.SlowThreshold
    THEN SlowPart(L, call.dur, call.f)
    ELSE DumpPart(L, call.dur, call.f)

\* The event of the slow or dump branch the call's elapsed time selects.
TailEnabled ==
    IF C.SlowThreshold > 0 /\ call.dur >= C.SlowThreshold
    THEN Enabled(slowLevel(C, L.Logger))
    ELSE Enabled(dumpLevel(C, L.Logger))

C2_ErrorOnly ==
    (TraceDone /\ call.err # "nil" /\ Enabled(SelectedErr)) =>
        /\ out = Msg(ErrEvent(L, call.err, call.f), ErrMsg)
        /\ Count(SlowMsg) = 0
        /\ Count(DumpMsg) = 0

\* C3: with an error whose selected event is disabled, the call writes what
\* the same call with a nil error writes, and invokes the supplier and the
\* Customize callback as often.
C3_FallThrough ==
    (TraceDone /\ call.err # "nil" /\ ~Enabled(SelectedErr)) =>
        /\ out = NilErrorCall.out
        /\ fCalls = NilErrorCall.fCalls
        /\ custCalls = NilErrorCall.cust

\* An ignored record-not-found error whose call went on to dump the sql.
C3_Witness ==
    /\ TraceDone
    /\ call.err # "nil"
    /\ ~Enabled(SelectedErr)
    /\ Len(out) = 1
    /\ out[1].msg \in {SlowMsg, DumpMsg}

SlowCase ==
    /\ TraceDone
    /\ C.SlowThreshold > 0
    /\ call.dur >= C.SlowThreshold
    /\ Count(ErrMsg) = 0

HasDuration(m) ==
    \E i \in DOMAIN m.fields :
        /\ m.fields[i] = Fld(durKey(C), "dur", call.dur, "")
        /\ \A j \in DOMAIN m.fields : m.fields[j].key = durKey(C) => j = i

\* C4 (as claimed): a call at or over a positive threshold that wrote no
\* error message writes the slow message, with the duration, and no dump.
C4_SlowAlways ==
    SlowCase =>
        /\ \E i \in DOMAIN out : out[i].msg = SlowMsg /\ HasDuration(out[i])
        /\ Count(DumpMsg) = 0

\* C4 (amended): such a call never writes the dump message; it writes the
\* slow message, once and with the duration, when the slow-severity event is
\* enabled, and nothing when it is not.
C4_SlowIfEnabled ==
    SlowCase =>
        /\ Count(DumpMsg) = 0
        /\ IF Enabled(slowLevel(C, L.Logger))
           THEN Len(out) = 1 /\ out[1].msg = SlowMsg /\ HasDuration(out[1])
           ELSE out = <<>>

\* A call whose elapsed time equals the threshold and that wrote the slow
\* message.
C4_Witness ==
    /\ SlowCase
    /\ call.dur = C.SlowThreshold
    /\ Len(out) = 1
    /\ out[1].msg = SlowMsg

\* C5: a Trace call invokes the supplier once per message written, and at
\* most once.
C5_SupplierOnce == TraceDone => (fCalls = Len(out) /\ fCalls <= 1)

IsCommon == CommonError(call.err)

IgnoreCase ==
    /\ TraceDone
    /\ C.ErrorLevel = "IgnoreCommonErr"
    /\ IsCommon

\* C8 (as claimed): with IgnoreCommonErr a common error never has the error
\* message written, whatever the threshold, and the call falls through.
C8_NeverError ==
    IgnoreCase => (Count(ErrMsg) = 0 /\ out = NilErrorCall.out)

\* C8 (amended): under every threshold above trace (and on a logger with no
\* writer) the error message is not written and the call falls through; on a
\* logger whose threshold is trace the error message is written, at trace
\* severity.
C8_IgnoredAboveTrace ==
    IgnoreCase =>
        IF L.Logger.w /\ L.Logger.level = TraceLevel
        THEN out # <<>> /\ out[1].msg = ErrMsg /\ out[1].level = TraceLevel
        ELSE Count(ErrMsg) = 0 /\ out = NilErrorCall.out

\* A wrapped duplicate-key error ignored under a debug threshold, its sql
\* dumped.
C8_Witness ==
    /\ IgnoreCase
    /\ call.err = "wrapDuplicatedKey"
    /\ L.Logger.w
    /\ L.Logger.level = DebugLevel
    /\ Len(out) = 1
    /\ out[1].msg = DumpMsg

CtxCount(m) == Cardinality({i \in DOMAIN m.fields : m.fields[i].key = "ctx"})

\* C9: the Customize callback runs once for each message a call writes, on
\* that message's event, and never for an event that is filtered out; with
\* no callback configured nothing runs.
C9_CustomizePerMessage ==
    (pc = "done" /\ call.op \in {"Info", "Warn", "Error", "Trace"}) =>
        /\ custCalls = IF C.Customize THEN Len(out) ELSE 0
        /\ \A i \in DOMAIN out :
              CtxCount(out[i]) = IF C.Customize THEN 1 ELSE 0

\* A Trace call whose error event was disabled and whose dump message was
\* written: the callback ran once.
C9_Witness ==
    /\ TraceDone
    /\ C.Customize
    /\ call.err # "nil"
    /\ ~Enabled(SelectedErr)
    /\ Len(out) = 1
    /\ custCalls = 1

DefaultConfig ==
    [SlowThreshold |-> 0, SlowLevel |-> "nil", Duration |-> "",
     ErrorLevel |-> "nil", DumpLevel |-> "nil", DumpWithDuration |-> FALSE,
     SQL |-> "", AffectedRows |-> "", Customize |-> FALSE]

\* C10: under the default Config and a threshold at or below error, a call
\* with a generic error writes one error message at error severity whose
\* fields are the error and the sql, each once, and the affected rows, once,
\* exactly when the row count is not -1.
C10_DefaultErrorFields ==
    (/\ TraceDone
     /\ C = DefaultConfig
     /\ L.Logger.w
     /\ L.Logger.level <= ErrorLevel
     /\ call.err = "generic") =>
        /\ Len(out) = 1
        /\ out[1].msg = ErrMsg
        /\ out[1].level = ErrorLevel
        /\ out[1].fields =
              IF call.f.rows = -1
              THEN << Fld("error", "err", 0, "generic"),
                      Fld("sql", "str", 0, call.f.sql) >>
              ELSE << Fld("error", "err", 0, "generic"),
                      Fld("sql", "str", 0, call.f.sql),
                      Fld("affected_rows", "int", call.f.rows, "") >>

\* C6: LogMode leaves the adapter the host constructed as it was, gives every
\* adapter the original's Config, and returns an adapter that is none of the
\* adapters there were.
C6_LogModeFrame ==
    /\ adapters[1] = orig
    /\ \A i \in DOMAIN adapters : adapters[i].Config = orig.Config
    /\ (pc = "done" /\ call.op = "LogMode") =>
          /\ ret.res \in DOMAIN adapters
          /\ ret.res \notin 1..ret.n
          /\ ret.res # ret.recv
          /\ adapters[ret.res].Logger.w = adapters[ret.recv].Logger.w

\* LogMode called on a derived adapter, both levels other than the
\* original's.
C6_Witness ==
    /\ pc = "done"
    /\ call.op = "LogMode"
    /\ ret.recv = 2
    /\ adapters[2].Logger.level # orig.Logger.level
    /\ adapters[ret.res].Logger.level # adapters[2].Logger.level

MapDone == pc = "done" /\ call.op = "MapLevel"

\* C7 (as claimed): Silent, Error and Warn map to disabled, error and warn,
\* and every other verbosity to debug (DefaultLogLevelMap) or trace
\* (WithTimeTracking).
C7_OthersLikeInfo ==
    MapDone =>
        /\ lvIn = logger_Silent => lvOut.def = Disabled /\ lvOut.tt = Disabled
        /\ lvIn = logger_Error => lvOut.def = ErrorLevel /\ lvOut.tt = ErrorLevel
        /\ lvIn = logger_Warn => lvOut.def = WarnLevel /\ lvOut.tt = WarnLevel
        /\ lvIn \notin {logger_Silent, logger_Error, logger_Warn} =>
              lvOut.def = DebugLevel /\ lvOut.tt = TraceLevel

\* C7 (amended): every verbosity at or below Silent maps to disabled, Error
\* to error, Warn to warn, and every other verbosity above Silent to debug
\* (DefaultLogLevelMap) or trace (WithTimeTracking), as Info does.
C7_LevelMap ==
    MapDone =>
        /\ lvIn <= logger_Silent => lvOut.def = Disabled /\ lvOut.tt = Disabled
        /\ lvIn = logger_Error => lvOut.def = ErrorLevel /\ lvOut.tt = ErrorLevel
        /\ lvIn = logger_Warn => lvOut.def = WarnLevel /\ lvOut.tt = WarnLevel
        /\ (lvIn > logger_Silent /\ lvIn \notin {logger_Error, logger_Warn}) =>
              /\ lvOut.def = DebugLevel
              /\ lvOut.tt = TraceLevel
              /\ lvOut.def = DefaultLogLevelMap(logger_Info)
              /\ lvOut.tt = WithTimeTracking(logger_Info)

\* A verbosity below Silent, mapped.
C7_Witness == MapDone /\ lvIn < logger_Silent /\ lvOut.def = Disabled

=============================================================================
